---- MODULE Spec2Model ----
(***************************************************************************)
(* Startup and shutdown of the Agent (package core): NewAgent, Start,      *)
(* Stop, initPlugins and handleAfterInit.                                  *)
(*                                                                         *)
(* Two threads of control exist: the caller of Start/Stop ("caller") and   *)
(* the goroutine launched by Start ("bg").  A plugin operation (Init,      *)
(* AfterInit, Close) takes time, so its invocation and its return are two  *)
(* steps; whether it succeeds is chosen when it returns.  Plugin indices   *)
(* are those of the Go slice, 0 .. len(plugins)-1.                         *)
(***************************************************************************)
EXTENDS Integers, Sequences, FiniteSets, TLC

VARIABLES
    plugins,              \* Agent.plugins: index -> [PluginName, postInit]
    initDuration,         \* startup.initDuration
    afterInitDuration,    \* startup.afterInitDuration
    currentlyProcessing,  \* startup.currentlyProcessing
    doneChannel,          \* "open" or "closed"
    cpc,                  \* position of the caller
    startErr,             \* value returned by Start
    stopErr,              \* value returned by the caller's Stop
    stops,                \* history: number of calls of Stop by the caller
    prevLog,              \* history: the Closes of the caller's previous Stop
    phaseInFlight,        \* branch taken at lines 133/136 of the timeout case
    deadlineEarly,        \* history: the deadline fired before plugin 0's Init returned
    bpc,                  \* position of the goroutine of Start
    index,                \* loop variable of initPlugins / handleAfterInit
    initPluginCounter,    \* local of initPlugins
    pluginFailed,         \* local of initPlugins / handleAfterInit
    wasError,             \* local of initPlugins / handleAfterInit
    rollback,             \* loop variable i of the rollback loop of initPlugins
    stop,                 \* per thread: the frame of a running Stop
    bgLog                 \* history: plugin operations invoked/returned in the goroutine

vars == <<plugins, initDuration, afterInitDuration, currentlyProcessing,
          doneChannel, cpc, startErr, stopErr, stops, prevLog, phaseInFlight,
          deadlineEarly, bpc, index, initPluginCounter, pluginFailed, wasError, rollback,
          stop, bgLog>>

agentVars  == <<initDuration, afterInitDuration, currentlyProcessing>>
callerVars == <<cpc, startErr, stopErr, stops, prevLog, phaseInFlight, deadlineEarly>>
bgVars     == <<bpc, index, initPluginCounter, pluginFailed, wasError, rollback>>
bgVars_rest == <<index, initPluginCounter, pluginFailed, wasError, rollback>>

-----------------------------------------------------------------------------
(* Bounds *)
MaxPlugins  == 2
MaxDuration == 1

(* const defaultTimerValue = -1 *)
defaultTimerValue == -1

Threads == {"caller", "bg"}

-----------------------------------------------------------------------------
(* Registry *)

\* len(agent.plugins)
NumPlugins == Cardinality(DOMAIN plugins)

\* string(plugin.PluginName); the registries considered have distinct names
NameOf(i) == "p" \o ToString(i)

PluginName(i) == plugins[i].PluginName

ImplementsPostInit_Always(i) == TRUE

\* plug.Plugin.(PostInit)
ImplementsPostInit(i) == plugins[i].postInit

Registries ==
    UNION { [0 .. (n - 1) -> BOOLEAN] : n \in 0 .. MaxPlugins }

-----------------------------------------------------------------------------
(* Errors.  An error is its kind, the plugin name it carries, the cause    *)
(* given by the plugin, and for the error of Stop the joined message.      *)

nil == [kind |-> "nil", name |-> "", cause |-> "", msg |-> <<>>]

\* err.Error() of the error a plugin returns from operation op
Cause(op, i) == op \o "#" \o ToString(i)

\* the error value a plugin returns from Close
PluginError(op, i) ==
    [kind |-> "plugin", name |-> "", cause |-> Cause(op, i), msg |-> <<>>]

\* fmt.Errorf(logErrorFmt, plugin.PluginName, err, pluginErrTime)
InitError(i) ==
    [kind |-> "init", name |-> PluginName(i), cause |-> Cause("Init", i), msg |-> <<>>]

\* fmt.Errorf(logAfterErrorFmt, plug.PluginName, err, pluginErrTime)
AfterInitError(i) ==
    [kind |-> "afterInit", name |-> PluginName(i), cause |-> Cause("AfterInit", i), msg |-> <<>>]

\* fmt.Errorf(logTimeoutFmt, agent.currentlyProcessing)
TimeoutError(name) ==
    [kind |-> "timeout", name |-> name, cause |-> "", msg |-> <<>>]

\* errors.New(errMsg)
StopError(errMsg) ==
    [kind |-> "stop", name |-> "", cause |-> "", msg |-> errMsg]

-----------------------------------------------------------------------------
(* History of the goroutine *)

Event(op, ph, i, ok) == [op |-> op, ph |-> ph, idx |-> i, ok |-> ok]

Invoke(op, i)      == Event(op, "call", i, TRUE)
Return(op, i, ok)  == Event(op, "ret", i, ok)

-----------------------------------------------------------------------------
(* NewAgent: the startup struct is built from MaxStartupTime alone, the    *)
(* other fields hold their zero values.                                    *)

idleFrame == [pc |-> "off", i |-> 0, errMsg |-> <<>>, log |-> <<>>]

NewAgent ==
    /\ plugins \in { [i \in DOMAIN r |-> [PluginName |-> NameOf(i), postInit |-> r[i]]] :
                       r \in Registries }
    /\ initDuration = 0
    /\ afterInitDuration = 0
    /\ currentlyProcessing = ""
    /\ doneChannel = "open"
    /\ cpc = "idle"
    /\ startErr = nil
    /\ stopErr = nil
    /\ stops = 0
    /\ prevLog = <<>>
    /\ phaseInFlight = "none"
    /\ deadlineEarly = FALSE
    /\ bpc = "none"
    /\ index = 0
    /\ initPluginCounter = 0
    /\ pluginFailed = FALSE
    /\ wasError = nil
    /\ rollback = 0
    /\ stop = [t \in Threads |-> idleFrame]
    /\ bgLog = <<>>

Init == NewAgent

-----------------------------------------------------------------------------
(* Stop, run by thread t *)

StopFirst_Short(n) == n - 2

\* line 153: i := len(agent.plugins) - 1
StopFirst(n) == n - 1

\* lines 152-153: errMsg := "", i := len(agent.plugins) - 1
StopEnter(t) ==
    stop' = [stop EXCEPT ![t] =
               [pc |-> "loop", i |-> StopFirst(NumPlugins), errMsg |-> <<>>, log |-> <<>>]]

AppendFailure_Overwrite(errMsg, i) ==
    <<PluginName(i), ": " \o Cause("Close", i)>>

\* lines 156-162: the message after the Close of plugin i failed
AppendFailure(errMsg, i) ==
    (IF Len(errMsg) > 0 THEN errMsg \o <<"; ">> ELSE errMsg)
        \o <<PluginName(i), ": " \o Cause("Close", i)>>

StopStep_Two(i) == i - 2

\* line 153: i--
StopStep(i) == i - 1

\* lines 168-171
StopResult(errMsg) == IF Len(errMsg) > 0 THEN StopError(errMsg) ELSE nil

\* line 155: safeclose.Close(agent.plugins[i].Plugin) is invoked
StopCloseCall(t) ==
    /\ stop[t].pc = "loop"
    /\ stop[t].i >= 0
    /\ stop' = [stop EXCEPT ![t].pc = "close"]

\* lines 155-163: Close returns, the failure is appended, i--
StopCloseReturn(t, ok) ==
    /\ stop[t].pc = "close"
    /\ stop' = [stop EXCEPT
                  ![t].pc = "loop",
                  ![t].errMsg = IF ok THEN @ ELSE AppendFailure(@, stop[t].i),
                  ![t].log = Append(@, [idx |-> stop[t].i, ok |-> ok]),
                  ![t].i = StopStep(@)]

\* lines 153, 166-171: the loop is over, Stop returns
StopExit(t) ==
    /\ stop[t].pc = "loop"
    /\ stop[t].i < 0
    /\ stop' = [stop EXCEPT ![t].pc = "done"]

-----------------------------------------------------------------------------
(* The caller *)

\* Start, lines 96-118: the channels are made and the goroutine is launched
Start ==
    /\ cpc = "idle"
    /\ cpc' = "select"
    /\ bpc' = "initPlugins"
    /\ UNCHANGED <<plugins, agentVars, doneChannel, startErr, stopErr, stops, prevLog, phaseInFlight,
                   deadlineEarly, index, initPluginCounter, pluginFailed, wasError,
                   rollback, stop, bgLog>>

\* lines 109/114 and 122-125: the goroutine's send on the unbuffered
\* errChannel meets the receive of the select
StartRecvErr ==
    /\ cpc = "select"
    /\ bpc = "send"
    /\ startErr' = wasError
    /\ cpc' = "returned"
    /\ bpc' = "exit"
    /\ UNCHANGED <<plugins, agentVars, doneChannel, stopErr, stops, prevLog, phaseInFlight, deadlineEarly,
                   index, initPluginCounter, pluginFailed, wasError, rollback, stop, bgLog>>

\* lines 126-131
StartRecvDone ==
    /\ cpc = "select"
    /\ doneChannel = "closed"
    /\ startErr' = nil
    /\ cpc' = "returned"
    /\ UNCHANGED <<plugins, agentVars, doneChannel, stopErr, stops, prevLog, phaseInFlight, deadlineEarly,
                   bgVars, stop, bgLog>>

FirstInitReturned ==
    \E n \in 1 .. Len(bgLog) :
        bgLog[n].op = "Init" /\ bgLog[n].ph = "ret" /\ bgLog[n].idx = 0

StartDeadline_NoTimer ==
    /\ cpc = "select"
    /\ FALSE
    /\ UNCHANGED vars

\* line 132: the timer of time.After(agent.MaxStartupTime) fires and the
\* select takes that case
StartDeadline ==
    /\ cpc = "select"
    /\ cpc' = "timeout"
    /\ deadlineEarly' = (NumPlugins > 0 /\ ~FirstInitReturned)
    /\ UNCHANGED <<plugins, agentVars, doneChannel, startErr, stopErr, stops, prevLog, phaseInFlight,
                   bgVars, stop, bgLog>>

\* lines 133-139: which phase is reported as still running
InFlight(initD, afterD) ==
    IF initD = defaultTimerValue THEN "init"
    ELSE IF afterD = defaultTimerValue THEN "afterInit"
    ELSE "none"

StartInspect ==
    /\ cpc = "timeout"
    /\ phaseInFlight' = InFlight(initDuration, afterInitDuration)
    /\ cpc' = "timeoutReturn"
    /\ UNCHANGED <<plugins, agentVars, doneChannel, startErr, stopErr, stops, prevLog, deadlineEarly,
                   bgVars, stop, bgLog>>

\* line 141: currentlyProcessing is read without synchronisation while the
\* goroutine may be writing it; the read sees the value of this instant,
\* which may be later than the one at which the timer fired
StartTimeout ==
    /\ cpc = "timeoutReturn"
    /\ startErr' = TimeoutError(currentlyProcessing)
    /\ cpc' = "returned"
    /\ UNCHANGED <<plugins, agentVars, doneChannel, stopErr, stops, prevLog, phaseInFlight, deadlineEarly,
                   bgVars, stop, bgLog>>

\* the goroutine of Start does not exist: it was not launched or has ended
Quiescent == bpc \in {"none", "exit"}

\* the caller calls Stop, before Start or after Start has returned, at a
\* moment when no goroutine of Start exists
CallerStop ==
    /\ cpc \in {"idle", "returned"}
    /\ Quiescent
    /\ StopEnter("caller")
    /\ cpc' = "stop"
    /\ stops' = stops + 1
    /\ UNCHANGED <<plugins, agentVars, doneChannel, startErr, stopErr, prevLog,
                   phaseInFlight, deadlineEarly, bgVars, bgLog>>

\* the caller calls Stop a second time, after its first Stop has returned
CallerStopAgain ==
    /\ cpc = "stopped"
    /\ stops = 1
    /\ Quiescent
    /\ prevLog' = stop["caller"].log
    /\ StopEnter("caller")
    /\ cpc' = "stop"
    /\ stops' = stops + 1
    /\ UNCHANGED <<plugins, agentVars, doneChannel, startErr, stopErr,
                   phaseInFlight, deadlineEarly, bgVars, bgLog>>

\* the caller calls Stop after Start has returned the timeout error, while
\* the goroutine of Start still exists
CallerStopOrphan ==
    /\ cpc = "returned"
    /\ startErr.kind = "timeout"
    /\ ~Quiescent
    /\ StopEnter("caller")
    /\ cpc' = "stop"
    /\ stops' = stops + 1
    /\ UNCHANGED <<plugins, agentVars, doneChannel, startErr, stopErr, prevLog,
                   phaseInFlight, deadlineEarly, bgVars, bgLog>>

CallerCloseCall ==
    /\ cpc = "stop"
    /\ StopCloseCall("caller")
    /\ UNCHANGED <<plugins, agentVars, doneChannel, callerVars, bgVars, bgLog>>

CallerCloseReturn ==
    /\ cpc = "stop"
    /\ \E ok \in BOOLEAN : StopCloseReturn("caller", ok)
    /\ UNCHANGED <<plugins, agentVars, doneChannel, callerVars, bgVars, bgLog>>

CallerStopReturn ==
    /\ cpc = "stop"
    /\ StopExit("caller")
    /\ stopErr' = StopResult(stop["caller"].errMsg)
    /\ cpc' = "stopped"
    /\ UNCHANGED <<plugins, agentVars, doneChannel, startErr, stops, prevLog,
                   phaseInFlight, deadlineEarly, bgVars, bgLog>>

-----------------------------------------------------------------------------
(* The goroutine of Start: initPlugins *)

\* lines 177-182
InitPluginsEnter ==
    /\ bpc = "initPlugins"
    /\ initDuration' = defaultTimerValue
    /\ initPluginCounter' = 0
    /\ pluginFailed' = FALSE
    /\ wasError' = nil
    /\ index' = 0
    /\ bpc' = "initLoop"
    /\ UNCHANGED <<plugins, afterInitDuration, currentlyProcessing, doneChannel,
                   callerVars, rollback, stop, bgLog>>

SkipPlugin_Never(failed) == FALSE

\* lines 190 and 238: if pluginFailed { continue }
SkipPlugin(failed) == failed

MarkFailed_Never(failed, ok) == failed

\* lines 197-201 and 247-251: pluginFailed = true after an error
MarkFailed(failed, ok) == IF ok THEN failed ELSE TRUE

HasError_Never(err) == FALSE

\* lines 210 and 263: if wasError != nil
HasError(err) == err # nil

PipelineFailed_Never(err) == FALSE

\* lines 108 and 113: if err != nil { errChannel <- err; return }
PipelineFailed(err) == err # nil

NowProcessing_Stale(cur, i) == cur

\* lines 187 and 235: agent.currentlyProcessing = string(plugin.PluginName)
NowProcessing(cur, i) == PluginName(i)

\* lines 183-196: one turn of the loop up to the call of plugin.Init()
InitLoop ==
    /\ bpc = "initLoop"
    /\ index < NumPlugins
    /\ initPluginCounter' = index
    /\ currentlyProcessing' = NowProcessing(currentlyProcessing, index)
    /\ IF SkipPlugin(pluginFailed)
         THEN /\ index' = index + 1
              /\ UNCHANGED <<bpc, bgLog>>
         ELSE /\ bpc' = "Init"
              /\ bgLog' = Append(bgLog, Invoke("Init", index))
              /\ UNCHANGED index
    /\ UNCHANGED <<plugins, initDuration, afterInitDuration, doneChannel, callerVars,
                   pluginFailed, wasError, rollback, stop>>

\* lines 196-206: plugin.Init() returns
InitReturn ==
    /\ bpc = "Init"
    /\ \E ok \in BOOLEAN :
         /\ bgLog' = Append(bgLog, Return("Init", index, ok))
         /\ pluginFailed' = MarkFailed(pluginFailed, ok)
         /\ wasError' = (IF ok THEN wasError ELSE InitError(index))
    /\ index' = index + 1
    /\ bpc' = "initLoop"
    /\ UNCHANGED <<plugins, agentVars, doneChannel, callerVars, initPluginCounter,
                   rollback, stop>>

Since_Unset == {defaultTimerValue}

\* lines 208 and 261: the values time.Since(...) may return
Since == 0 .. MaxDuration

\* line 212: i := initPluginCounter
RollbackFrom(counter) == counter

\* lines 208-212 and 221, 108: the loop is over
InitLoopExit ==
    /\ bpc = "initLoop"
    /\ index >= NumPlugins
    /\ \E d \in Since : initDuration' = d
    /\ IF HasError(wasError)
         THEN /\ rollback' = RollbackFrom(initPluginCounter)
              /\ bpc' = "rollback"
         ELSE /\ bpc' = "handleAfterInit"
              /\ UNCHANGED rollback
    /\ UNCHANGED <<plugins, afterInitDuration, currentlyProcessing, doneChannel,
                   callerVars, index, initPluginCounter, pluginFailed, wasError,
                   stop, bgLog>>

RollbackError_Keep(was, err) == was

\* lines 215-217: if err != nil { wasError = err }
RollbackError(was, err) == err

\* lines 212-214: safeclose.Close(agent.plugins[i]) is invoked
RollbackCloseCall ==
    /\ bpc = "rollback"
    /\ rollback >= 0
    /\ bgLog' = Append(bgLog, Invoke("Close", rollback))
    /\ bpc' = "rollbackClose"
    /\ UNCHANGED <<plugins, agentVars, doneChannel, callerVars, index, initPluginCounter,
                   pluginFailed, wasError, rollback, stop>>

\* lines 214-217: Close returns
RollbackCloseReturn ==
    /\ bpc = "rollbackClose"
    /\ \E ok \in BOOLEAN :
         /\ bgLog' = Append(bgLog, Return("Close", rollback, ok))
         /\ wasError' = (IF ok THEN wasError
                         ELSE RollbackError(wasError, PluginError("Close", rollback)))
    /\ rollback' = rollback - 1
    /\ bpc' = "rollback"
    /\ UNCHANGED <<plugins, agentVars, doneChannel, callerVars, index, initPluginCounter,
                   pluginFailed, stop>>

\* lines 212, 219 and 108-109: initPlugins returns wasError, the goroutine
\* checks it and goes on to send it
RollbackExit ==
    /\ bpc = "rollback"
    /\ rollback < 0
    /\ bpc' = (IF PipelineFailed(wasError) THEN "send" ELSE "handleAfterInit")
    /\ UNCHANGED <<plugins, agentVars, doneChannel, callerVars, index, initPluginCounter,
                   pluginFailed, wasError, rollback, stop, bgLog>>

-----------------------------------------------------------------------------
(* The goroutine of Start: handleAfterInit *)

\* line 108: handleAfterInit is reached only if initPlugins returned nil;
\* lines 228-232
AfterInitEnter ==
    /\ bpc = "handleAfterInit"
    /\ afterInitDuration' = defaultTimerValue
    /\ pluginFailed' = FALSE
    /\ wasError' = nil
    /\ index' = 0
    /\ bpc' = "afterInitLoop"
    /\ UNCHANGED <<plugins, initDuration, currentlyProcessing, doneChannel, callerVars,
                   initPluginCounter, rollback, stop, bgLog>>

\* lines 233-246 and 257-259: one turn of the loop up to the call of
\* plugin.AfterInit()
AfterInitLoop ==
    /\ bpc = "afterInitLoop"
    /\ index < NumPlugins
    /\ currentlyProcessing' = NowProcessing(currentlyProcessing, index)
    /\ IF SkipPlugin(pluginFailed) \/ ~ImplementsPostInit(index)
         THEN /\ index' = index + 1
              /\ UNCHANGED <<bpc, bgLog>>
         ELSE /\ bpc' = "AfterInit"
              /\ bgLog' = Append(bgLog, Invoke("AfterInit", index))
              /\ UNCHANGED index
    /\ UNCHANGED <<plugins, initDuration, afterInitDuration, doneChannel, callerVars,
                   initPluginCounter, pluginFailed, wasError, rollback, stop>>

\* lines 246-256: plugin.AfterInit() returns
AfterInitReturn ==
    /\ bpc = "AfterInit"
    /\ \E ok \in BOOLEAN :
         /\ bgLog' = Append(bgLog, Return("AfterInit", index, ok))
         /\ pluginFailed' = MarkFailed(pluginFailed, ok)
         /\ wasError' = (IF ok THEN wasError ELSE AfterInitError(index))
    /\ index' = index + 1
    /\ bpc' = "afterInitLoop"
    /\ UNCHANGED <<plugins, agentVars, doneChannel, callerVars, initPluginCounter,
                   rollback, stop>>

\* lines 261-264 and 267, 113: the loop is over; after a failure
\* agent.Stop() is called
AfterInitLoopExit ==
    /\ bpc = "afterInitLoop"
    /\ index >= NumPlugins
    /\ \E d \in Since : afterInitDuration' = d
    /\ IF HasError(wasError)
         THEN /\ StopEnter("bg")
              /\ bpc' = "Stop"
         ELSE /\ bpc' = "close"
              /\ UNCHANGED stop
    /\ UNCHANGED <<plugins, initDuration, currentlyProcessing, doneChannel, callerVars,
                   index, initPluginCounter, pluginFailed, wasError, rollback, bgLog>>

\* line 264: agent.Stop() invokes Close
TeardownCloseCall ==
    /\ bpc = "Stop"
    /\ StopCloseCall("bg")
    /\ bgLog' = Append(bgLog, Invoke("Close", stop["bg"].i))
    /\ UNCHANGED <<plugins, agentVars, doneChannel, callerVars, bgVars>>

\* line 264: a Close of agent.Stop() returns
TeardownCloseReturn ==
    /\ bpc = "Stop"
    /\ \E ok \in BOOLEAN :
         /\ StopCloseReturn("bg", ok)
         /\ bgLog' = Append(bgLog, Return("Close", stop["bg"].i, ok))
    /\ UNCHANGED <<plugins, agentVars, doneChannel, callerVars, bgVars>>

\* lines 264-265 and 113-114: agent.Stop() returns, its result is dropped,
\* handleAfterInit returns wasError, the goroutine checks it and goes on to
\* send it
TeardownExit ==
    /\ bpc = "Stop"
    /\ StopExit("bg")
    /\ bpc' = (IF PipelineFailed(wasError) THEN "send" ELSE "close")
    /\ UNCHANGED <<plugins, agentVars, doneChannel, callerVars, index, initPluginCounter,
                   pluginFailed, wasError, rollback, bgLog>>

\* line 117: close(doneChannel)
CloseDone ==
    /\ bpc = "close"
    /\ doneChannel' = "closed"
    /\ bpc' = "exit"
    /\ UNCHANGED <<plugins, agentVars, callerVars, bgVars_rest, stop, bgLog>>

-----------------------------------------------------------------------------
Next ==
    \/ Start
    \/ StartRecvErr
    \/ StartRecvDone
    \/ StartDeadline
    \/ StartInspect
    \/ StartTimeout
    \/ CallerStop
    \/ CallerCloseCall
    \/ CallerCloseReturn
    \/ CallerStopReturn
    \/ InitPluginsEnter
    \/ InitLoop
    \/ InitReturn
    \/ InitLoopExit
    \/ RollbackCloseCall
    \/ RollbackCloseReturn
    \/ RollbackExit
    \/ AfterInitEnter
    \/ AfterInitLoop
    \/ AfterInitReturn
    \/ AfterInitLoopExit
    \/ TeardownCloseCall
    \/ TeardownCloseReturn
    \/ TeardownExit
    \/ CloseDone

Spec == Init /\ [][Next]_vars

\* The timer of Start fires if it is waited for, and the caller runs the
\* statements of the deadline case; nothing makes a plugin operation return.
LiveSpec ==
    /\ Spec
    /\ WF_vars(StartDeadline)
    /\ WF_vars(StartInspect)
    /\ WF_vars(StartTimeout)

\* the caller may call Stop while the goroutine of a timed-out Start runs
NextOrphan == Next \/ CallerStopOrphan

SpecOrphan == Init /\ [][NextOrphan]_vars

\* the caller may call Stop twice
NextStopAgain == Next \/ CallerStopAgain

SpecStopAgain == Init /\ [][NextStopAgain]_vars

-----------------------------------------------------------------------------
(* Reading the history *)

Indices == DOMAIN plugins

Pos == 1 .. Len(bgLog)

Invoked(op, i) == \E n \in Pos : bgLog[n] = Invoke(op, i)

Returned(op, i, ok) == \E n \in Pos : bgLog[n] = Return(op, i, ok)

IsCall(e, op) == e.op = op /\ e.ph = "call"

IsCloseCall(e) == IsCall(e, "Close")

IsCloseReturn(e) == e.op = "Close" /\ e.ph = "ret"

IdxOf(seq) == [n \in 1 .. Len(seq) |-> seq[n].idx]

\* the plugins on which the goroutine invoked Close, in the order of invocation
ClosesInvoked == IdxOf(SelectSeq(bgLog, IsCloseCall))

\* the plugins whose Close returned in the goroutine, in the order of return
ClosesReturned == IdxOf(SelectSeq(bgLog, IsCloseReturn))

\* <<k, k-1, ..., 0>>
DownFrom(k) == [n \in 1 .. (k + 1) |-> k + 1 - n]

IsPrefix(a, b) == Len(a) <= Len(b) /\ a = SubSeq(b, 1, Len(a))

\* Start was called and has returned to its caller
StartReturned == bpc # "none" /\ cpc \in {"returned", "stop", "stopped"}

-----------------------------------------------------------------------------
(* Claims *)

\* C1: during one Start, Init is invoked in registry order and at most once
\* per plugin; when Init of plugin i is invoked, Init of every plugin j < i
\* has returned successfully; and an invoked Init has returned before the
\* next Init is invoked (no two Init calls overlap).
C1_InitInOrder ==
    \A n \in Pos :
        IsCall(bgLog[n], "Init") =>
            /\ \A j \in 0 .. (bgLog[n].idx - 1) :
                   \E m \in 1 .. (n - 1) : bgLog[m] = Return("Init", j, TRUE)
            /\ \A m \in Pos : m # n => bgLog[m] # bgLog[n]
            /\ \A m \in (n + 1) .. Len(bgLog) :
                   IsCall(bgLog[m], "Init") =>
                       /\ bgLog[m].idx > bgLog[n].idx
                       /\ \E r \in (n + 1) .. (m - 1) :
                              /\ bgLog[r].op = "Init"
                              /\ bgLog[r].ph = "ret"
                              /\ bgLog[r].idx = bgLog[n].idx

\* the Init of the second plugin of a registry is running
C1_Witness ==
    /\ NumPlugins >= 2
    /\ bpc = "Init"
    /\ index = 1

\* C2: no AfterInit is invoked unless Init has returned successfully for
\* every plugin of the registry before; after a failed Init no AfterInit is
\* invoked at all.
C2_PhaseOneFirst ==
    /\ \A n \in Pos :
           IsCall(bgLog[n], "AfterInit") =>
               \A j \in Indices :
                   \E m \in 1 .. (n - 1) : bgLog[m] = Return("Init", j, TRUE)
    /\ (\E j \in Indices : Returned("Init", j, FALSE)) =>
           \A n \in Pos : bgLog[n].op # "AfterInit"

\* the AfterInit of the first plugin of a registry of several is running
C2_Witness ==
    /\ NumPlugins >= 2
    /\ bpc = "AfterInit"
    /\ index = 0

\* C4: once Init (resp. AfterInit) of plugin k has returned an error, Init
\* (resp. AfterInit) is invoked on no plugin at an index > k.
C4_FailFast ==
    \A n \in Pos :
        (bgLog[n].ph = "ret" /\ ~bgLog[n].ok /\ bgLog[n].op \in {"Init", "AfterInit"}) =>
            \A m \in Pos :
                IsCall(bgLog[m], bgLog[n].op) =>
                    /\ m < n
                    /\ bgLog[m].idx <= bgLog[n].idx

\* the AfterInit of plugin 0 failed, plugin 1 implements PostInit, and the
\* goroutine has ended
C4_Witness ==
    /\ NumPlugins >= 2
    /\ Returned("AfterInit", 0, FALSE)
    /\ ImplementsPostInit(1)
    /\ bpc = "exit"

\* C5: when Start has returned nil, the Init of every plugin and the
\* AfterInit of every plugin that implements PostInit have returned
\* successfully, and the goroutine has invoked no Close.
C5_NoPartialSuccess ==
    (StartReturned /\ startErr = nil) =>
        /\ \A i \in Indices :
               /\ Returned("Init", i, TRUE)
               /\ ImplementsPostInit(i) => Returned("AfterInit", i, TRUE)
        /\ \A n \in Pos : bgLog[n].op # "Close"

\* Start has returned nil for a registry of two whose second plugin
\* implements PostInit
C5_Witness ==
    /\ StartReturned
    /\ startErr = nil
    /\ NumPlugins = 2
    /\ ImplementsPostInit(1)

\* C3: if Init of plugin k failed, then once the rollback is over Close has
\* been invoked on exactly the plugins k, k-1, ..., 0, in that order, each
\* once, and on no plugin at an index > k.
C3_RollbackUpToFailed ==
    \A k \in Indices :
        (Returned("Init", k, FALSE) /\ bpc \in {"send", "exit"}) =>
            ClosesInvoked = DownFrom(k)

\* C6: if the AfterInit of plugin k failed, then once the teardown is over
\* Close has been invoked, and has returned, on every plugin of the registry
\* in the order N-1, ..., 0, each exactly once; the AfterInit error reaches
\* the caller of Start only after that.
C6_FullTeardown ==
    \A k \in Indices :
        Returned("AfterInit", k, FALSE) =>
            /\ IsPrefix(ClosesInvoked, DownFrom(NumPlugins - 1))
            /\ bpc \in {"send", "exit"} =>
                   /\ ClosesInvoked = DownFrom(NumPlugins - 1)
                   /\ ClosesReturned = DownFrom(NumPlugins - 1)
            /\ (StartReturned /\ startErr.kind = "afterInit") =>
                   /\ bpc = "exit"
                   /\ startErr = AfterInitError(k)

\* Start has returned the AfterInit error of plugin 0 of a registry of
\* several
C6_Witness ==
    /\ NumPlugins >= 2
    /\ StartReturned
    /\ startErr.kind = "afterInit"
    /\ Returned("AfterInit", 0, FALSE)

\* C7: a Stop that has returned has invoked Close on every plugin exactly
\* once, in the order N-1, ..., 0, whichever of the Closes failed; a running
\* Stop has done so for a prefix of that order.
C7_StopReleasesAll ==
    \A t \in Threads :
        /\ stop[t].pc \in {"loop", "close", "done"} =>
               IsPrefix(IdxOf(stop[t].log), DownFrom(NumPlugins - 1))
        /\ stop[t].pc = "done" =>
               IdxOf(stop[t].log) = DownFrom(NumPlugins - 1)

\* the caller's Stop has returned for a registry of two; the Close of
\* plugin 1 failed and the Close of plugin 0 succeeded
C7_Witness ==
    /\ NumPlugins = 2
    /\ cpc = "stopped"
    /\ Len(stop["caller"].log) = 2
    /\ ~stop["caller"].log[1].ok
    /\ stop["caller"].log[2].ok

\* the names an error message of Stop carries, in the order of the message
NamesIn(msg) == [n \in 1 .. ((Len(msg) + 1) \div 3) |-> msg[3 * n - 2]]

IsFailure(r) == ~r.ok

\* the names of the plugins whose Close failed, in the order of release
FailedNames(log) ==
    [n \in 1 .. Len(SelectSeq(log, IsFailure)) |->
        PluginName(SelectSeq(log, IsFailure)[n].idx)]

\* C8: Stop returns nil if and only if every Close it invoked succeeded;
\* otherwise it returns one error whose message names exactly the plugins
\* whose Close failed, in the order they were released.
C8_StopAggregate ==
    cpc = "stopped" =>
        /\ stopErr = nil <=> \A n \in 1 .. Len(stop["caller"].log) : stop["caller"].log[n].ok
        /\ stopErr # nil =>
               /\ stopErr.kind = "stop"
               /\ NamesIn(stopErr.msg) = FailedNames(stop["caller"].log)

\* the caller's Stop has returned for a registry of two; the Closes of both
\* plugins failed and the error names both
C8_Witness ==
    /\ NumPlugins = 2
    /\ cpc = "stopped"
    /\ Len(stop["caller"].log) = 2
    /\ ~stop["caller"].log[1].ok
    /\ ~stop["caller"].log[2].ok
    /\ stopErr.kind = "stop"
    /\ Len(stopErr.msg) = 5

\* C9: if Init of plugin k failed and Start has returned without the
\* deadline firing, Start has returned the Init error of plugin k, whatever
\* the Closes of the rollback returned.
C9_InitErrorReturned ==
    \A k \in Indices :
        (StartReturned /\ startErr.kind # "timeout" /\ Returned("Init", k, FALSE)) =>
            startErr = InitError(k)

\* C10: if the deadline fired before the Init of the first plugin had
\* returned, Start returns a timeout error naming the first plugin, having
\* found initDuration at defaultTimerValue.
C10_EarlyTimeout ==
    (StartReturned /\ startErr.kind = "timeout" /\ deadlineEarly) =>
        /\ startErr.name = PluginName(0)
        /\ phaseInFlight = "init"

\* C11: a second Stop, called after a Stop in which every Close succeeded,
\* invokes Close on no plugin that the first Stop released.
C11_SecondStopReleasesNothing ==
    (/\ stops = 2
     /\ stop["caller"].pc = "close"
     /\ \A n \in 1 .. Len(prevLog) : prevLog[n].ok) =>
        \A n \in 1 .. Len(prevLog) : prevLog[n].idx # stop["caller"].i

\* C12: if every Init and every AfterInit succeeded and Start has returned
\* without taking the deadline case, Start has returned nil and neither
\* initDuration nor afterInitDuration holds defaultTimerValue.
C12_SuccessSetsDurations ==
    (/\ StartReturned
     /\ startErr.kind # "timeout"
     /\ \A n \in Pos : bgLog[n].ok) =>
        /\ startErr = nil
        /\ initDuration # defaultTimerValue
        /\ afterInitDuration # defaultTimerValue

\* Start has returned nil for a registry of two PostInit plugins, with
\* differing phase durations
C12_Witness ==
    /\ StartReturned
    /\ startErr = nil
    /\ NumPlugins = 2
    /\ Returned("AfterInit", 0, TRUE)
    /\ Returned("AfterInit", 1, TRUE)
    /\ initDuration = 1
    /\ afterInitDuration = 0

\* the error err carries the cause c, as its own cause or in its message
Mentions(err, c) ==
    \/ err.cause = c
    \/ \E n \in 1 .. Len(err.msg) : err.msg[n] = ": " \o c

\* C13: if an AfterInit failed, the Close of plugin i failed in the teardown
\* that followed, and Start has returned the error of the pipeline, then
\* that error carries the failure of the Close of plugin i.
C13_TeardownFailureReported ==
    \A i \in Indices :
        (/\ StartReturned
         /\ startErr.kind # "timeout"
         /\ \E k \in Indices : Returned("AfterInit", k, FALSE)
         /\ Returned("Close", i, FALSE)) =>
            Mentions(startErr, Cause("Close", i))

\* C14: a Start that waits in its select eventually returns, whether or not
\* the plugin operations return; what it returns is nil, an error of the
\* pipeline or the timeout error, and it is returned once.
C14_StartReturns ==
    /\ (cpc = "select") ~> StartReturned
    /\ [](StartReturned =>
            startErr.kind \in {"nil", "init", "afterInit", "plugin", "timeout"})
    /\ [][StartReturned => (StartReturned' /\ startErr' = startErr)]_vars

\* Start has returned the timeout error while the Init of plugin 0 has not
\* returned
C14_Witness ==
    /\ StartReturned
    /\ startErr.kind = "timeout"
    /\ bpc = "Init"
    /\ index = 0

\* C15: after Start has returned the timeout error, the goroutine is never
\* blocked: it is not waiting in a send on errChannel, whose only receiver
\* was the select that Start has left (a goroutine waiting there never
\* terminates).
C15_GoroutineNotBlocked ==
    (StartReturned /\ startErr.kind = "timeout") => bpc # "send"

\* C16: when Stop is called after Start returned the timeout error, no
\* plugin has its Close by that Stop executing while its own Init or
\* AfterInit executes in the goroutine, and no Init or AfterInit executes on
\* a plugin that Stop has already closed.
C16_StopSafeAfterTimeout ==
    (stops >= 1 /\ startErr.kind = "timeout" /\ bpc \in {"Init", "AfterInit"}) =>
        /\ ~(stop["caller"].pc = "close" /\ stop["caller"].i = index)
        /\ \A n \in 1 .. Len(stop["caller"].log) : stop["caller"].log[n].idx # index

\* the plugins whose Close failed in the goroutine
FailedCloses == {i \in Indices : Returned("Close", i, FALSE)}

Lowest(S) == CHOOSE i \in S : \A j \in S : i <= j

Phase1Finished == bpc \notin {"none", "initPlugins", "initLoop", "Init"}

\* handleAfterInit has passed line 261
Phase2Finished ==
    \/ bpc \in {"Stop", "close"}
    \/ /\ bpc \in {"send", "exit"}
       /\ \A k \in Indices : ~Returned("Init", k, FALSE)

\* C18: in every state from NewAgent on, initDuration holds
\* defaultTimerValue until phase 1 has finished and afterInitDuration holds
\* it until phase 2 has finished; and when Start has taken the deadline case
\* it has identified phase 1 or phase 2 as the one in flight.
C18_UnsetUntilFinished ==
    /\ ~Phase1Finished => initDuration = defaultTimerValue
    /\ ~Phase2Finished => afterInitDuration = defaultTimerValue
    /\ (cpc = "timeoutReturn" \/ (StartReturned /\ startErr.kind = "timeout")) =>
           phaseInFlight \in {"init", "afterInit"}

\* C19: while the Init or AfterInit of a plugin executes in the goroutine,
\* currentlyProcessing is the name of that plugin; a timeout error that
\* Start returns while it executes names it; and only the loops of
\* initPlugins and handleAfterInit write currentlyProcessing, never the
\* caller's side of Start nor Stop.
C19_ProcessingIsRunningPlugin ==
    /\ [](bpc \in {"Init", "AfterInit"} => currentlyProcessing = plugins[index].PluginName)
    /\ [][(/\ cpc = "timeoutReturn"
           /\ cpc' = "returned"
           /\ bpc \in {"Init", "AfterInit"}) =>
              startErr' = TimeoutError(plugins[index].PluginName)]_vars
    /\ [][currentlyProcessing' # currentlyProcessing =>
              /\ bpc \in {"initLoop", "afterInitLoop"}
              /\ cpc' = cpc
              /\ stop' = stop]_vars

\* Start has returned the timeout error naming plugin 1 while the AfterInit
\* of plugin 1 executes
C19_Witness ==
    /\ StartReturned
    /\ bpc = "AfterInit"
    /\ index = 1
    /\ startErr = TimeoutError(plugins[1].PluginName)

\* no plugin of the registry implements PostInit
NoPostInit == \A i \in Indices : ~plugins[i].postInit

\* C20: AfterInit is invoked only on plugins that implement PostInit; if no
\* plugin implements it, handleAfterInit invokes no AfterInit, keeps
\* wasError nil and calls no Stop, so that after a phase 1 without failure
\* the goroutine invokes no Close and sends no error.
C20_OptionalAfterInit ==
    /\ \A n \in Pos : bgLog[n].op = "AfterInit" => plugins[bgLog[n].idx].postInit
    /\ NoPostInit =>
           /\ \A n \in Pos : bgLog[n].op # "AfterInit"
           /\ bpc # "Stop"
           /\ stop["bg"].pc = "off"
           /\ bpc \in {"afterInitLoop", "close"} => wasError = nil
           /\ (\A k \in Indices : ~Returned("Init", k, FALSE)) =>
                  /\ \A n \in Pos : bgLog[n].op # "Close"
                  /\ bpc # "send"
                  /\ bpc = "exit" => (wasError = nil /\ doneChannel = "closed")

\* the goroutine has ended with doneChannel closed for a registry of two
\* plugins neither of which implements PostInit
C20_Witness ==
    /\ NumPlugins = 2
    /\ NoPostInit
    /\ bpc = "exit"
    /\ doneChannel = "closed"

====
